---- MODULE Spec2Model ----
(***************************************************************************)
(* Model of components/backup/src/errors.rs: the backup Error type, its    *)
(* From conversions, and the translation of an Error into the wire         *)
(* message ErrorPb together with the BACKUP_RANGE_ERROR_VEC counters.      *)
(*                                                                         *)
(* Text is a sequence of string tokens, so that formatting ("{}" and       *)
(* "{:?}") is concatenation and two renderings can differ.                 *)
(***************************************************************************)
EXTENDS Integers, Sequences, FiniteSets, TLC

VARIABLES pc, self, err, old, counters, tpc, arg, ret

vars == <<pc, self, err, old, counters, tpc, arg, ret>>

(* ------------------------------ bounds -------------------------------- *)

\* at most this many increments are observed in a sequential run
MaxCalls == 2
\* number of worker threads translating concurrently
NumThreads == 2
\* a region error of the input domain carries at most this many reasons
MaxReasons == 2

Threads == 1..NumThreads

(* --------------------------- metrics labels ---------------------------- *)

Labels ==
  <<"cluster_mismatch", "not_leader", "region_not_found", "key_not_in_region",
    "epoch_not_match", "server_is_busy", "stale_command", "store_not_match",
    "key_is_locked", "timeout", "other">>

LabelSet == {Labels[i] : i \in DOMAIN Labels}

\* IntCounterVec::with_label_values(&[l]).inc(): one atomic add on one label
IncCounter(c, l) == [c EXCEPT ![l] = c[l] + 1]

RECURSIVE IncAll(_, _)
IncAll(c, ls) ==
  IF ls = <<>> THEN c ELSE IncAll(IncCounter(c, Head(ls)), Tail(ls))

RECURSIVE SumUpTo(_, _)
SumUpTo(c, n) == IF n = 0 THEN 0 ELSE c[Labels[n]] + SumUpTo(c, n - 1)

Total(c) == SumUpTo(c, Len(Labels))

(* ------------------------- upstream error types ------------------------ *)

\* the reason fields of errorpb::Error that the translation inspects
ReasonFields ==
  {"not_leader", "region_not_found", "key_not_in_region", "epoch_not_match",
   "server_is_busy", "stale_command", "store_not_match"}

Messages == {<<>>, <<"peer is not leader">>}
BusyReasons == {<<"scheduler is busy">>}

\* errorpb::Error: a message and optional reason fields (not a oneof)
RegionErrors ==
  {[message |-> m, has |-> h,
    busy_reason |-> IF "server_is_busy" \in h THEN b ELSE <<>>] :
     m \in Messages,
     h \in {s \in SUBSET ReasonFields : Cardinality(s) <= MaxReasons},
     b \in BusyReasons}

Durations == {"1s", "deadline exceeded"}
ByteStrings == {<<>>, <<"p">>}
U64s == {0, 7}
ClusterIds == {1, 2}

EngineRequest(e) == [tag |-> "Request", e |-> e]
EngineTimeout(d) == [tag |-> "Timeout", d |-> d]
EngineEmpty == [tag |-> "EmptyRequest"]

EngineErrors ==
  {EngineRequest(e) : e \in RegionErrors}
    \cup {EngineTimeout(d) : d \in Durations} \cup {EngineEmpty}

MvccEngine(ee) == [tag |-> "Engine", inner |-> ee]
MvccKeyIsLocked(primary, ts, key, ttl, txn_size) ==
  [tag |-> "KeyIsLocked", primary |-> primary, ts |-> ts, key |-> key,
   ttl |-> ttl, txn_size |-> txn_size]
MvccCommitted == [tag |-> "Committed"]

MvccErrors ==
  {MvccEngine(ee) : ee \in EngineErrors}
    \cup {MvccKeyIsLocked(p, ts, k, ttl, n) :
            p \in ByteStrings, ts \in U64s, k \in ByteStrings,
            ttl \in U64s, n \in U64s}
    \cup {MvccCommitted}

TxnEngine(ee) == [tag |-> "Engine", inner |-> ee]
TxnMvcc(me) == [tag |-> "Mvcc", inner |-> me]
TxnInvalidTso == [tag |-> "InvalidTxnTso"]

TxnErrors ==
  {TxnEngine(ee) : ee \in EngineErrors}
    \cup {TxnMvcc(me) : me \in MvccErrors} \cup {TxnInvalidTso}

BoxedErrors == {"boxed failure"}
RocksStrings == {<<>>, <<"corruption">>}
IoErrors == {"disk full"}

(* ----------------------------- enum Error ------------------------------ *)

ErrOther(b) == [tag |-> "Other", inner |-> b]
ErrRocks(s) == [tag |-> "Rocks", inner |-> s]
ErrIo(io) == [tag |-> "Io", inner |-> io]
ErrEngine(ee) == [tag |-> "Engine", inner |-> ee]
ErrTxn(te) == [tag |-> "Txn", inner |-> te]
ErrClusterID(current, request) ==
  [tag |-> "ClusterID", current |-> current, request |-> request]

\* impl_from!: each upstream type is wrapped in its container, unchanged
From(container, inr) == [tag |-> container, inner |-> inr]

Upstream ==
  {<<"Other", b>> : b \in BoxedErrors}
    \cup {<<"Rocks", s>> : s \in RocksStrings}
    \cup {<<"Io", io>> : io \in IoErrors}
    \cup {<<"Engine", ee>> : ee \in EngineErrors}
    \cup {<<"Txn", te>> : te \in TxnErrors}

(* --------------------------- text rendering ---------------------------- *)

\* Display / Debug of the upstream error types
DisplayRegion(e) == <<"RegionError{">> \o e.message \o <<"}">>

DisplayEngine(ee) ==
  CASE ee.tag = "Request" -> DisplayRegion(ee.e)
    [] ee.tag = "Timeout" -> <<ee.d>>
    [] OTHER -> <<"an empty request">>

DebugEngine(ee) ==
  CASE ee.tag = "Request" -> <<"Request(">> \o DisplayRegion(ee.e) \o <<")">>
    [] ee.tag = "Timeout" -> <<"Timeout(", ee.d, ")">>
    [] OTHER -> <<"EmptyRequest">>

DisplayMvcc(me) ==
  CASE me.tag = "Engine" -> DisplayEngine(me.inner)
    [] me.tag = "KeyIsLocked" -> <<"key is locked">>
    [] OTHER -> <<"txn already committed">>

DebugMvcc(me) ==
  CASE me.tag = "Engine" -> <<"Engine(">> \o DebugEngine(me.inner) \o <<")">>
    [] me.tag = "KeyIsLocked" -> <<"KeyIsLocked">>
    [] OTHER -> <<"Committed">>

DisplayTxn(te) ==
  CASE te.tag = "Engine" -> DisplayEngine(te.inner)
    [] te.tag = "Mvcc" -> DisplayMvcc(te.inner)
    [] OTHER -> <<"invalid txn tso">>

DebugTxn(te) ==
  CASE te.tag = "Engine" -> <<"Engine(">> \o DebugEngine(te.inner) \o <<")">>
    [] te.tag = "Mvcc" -> <<"Mvcc(">> \o DebugMvcc(te.inner) \o <<")">>
    [] OTHER -> <<"InvalidTxnTso">>

\* DisplayError with the Engine variant rendered as its inner error alone
DisplayErrorBare(x) ==
  CASE x.tag = "Engine" -> DisplayEngine(x.inner)
    [] x.tag = "Txn" -> DisplayTxn(x.inner)
    [] x.tag = "Rocks" -> x.inner
    [] OTHER -> <<"error">>

\* #[fail(display = ...)] of enum Error
DisplayError(x) ==
  CASE x.tag = "Other" -> <<"Other error ", x.inner>>
    [] x.tag = "Rocks" -> <<"RocksDB error ">> \o x.inner
    [] x.tag = "Io" -> <<"IO error ", x.inner>>
    [] x.tag = "Engine" -> <<"Engine error ">> \o DisplayEngine(x.inner)
    [] x.tag = "Txn" -> <<"Transaction error ">> \o DisplayTxn(x.inner)
    [] x.tag = "ClusterID" ->
         <<"ClusterID error current ", ToString(x.current), ", request ",
           ToString(x.request)>>

\* #[derive(Debug)] of enum Error
DebugError(x) ==
  CASE x.tag = "Other" -> <<"Other(", x.inner, ")">>
    [] x.tag = "Rocks" -> <<"Rocks(", "\"">> \o x.inner \o <<"\"", ")">>
    [] x.tag = "Io" -> <<"Io(", x.inner, ")">>
    [] x.tag = "Engine" -> <<"Engine(">> \o DebugEngine(x.inner) \o <<")">>
    [] x.tag = "Txn" -> <<"Txn(">> \o DebugTxn(x.inner) \o <<")">>
    [] x.tag = "ClusterID" ->
         <<"ClusterID { current: ", ToString(x.current), ", request: ",
           ToString(x.request), " }">>

(* ----------------------------- wire message ---------------------------- *)

Absent == [tag |-> "absent"]
Some(v) == [tag |-> "some", v |-> v]

\* ErrorPb::new(): every field at its default
NewErrorPb ==
  [msg |-> <<>>, cluster_id_error |-> Absent, kv_error |-> Absent,
   region_error |-> Absent]

\* mut_cluster_id_error(): the field, created with defaults when absent
MutClusterIdError(pb) ==
  IF pb.cluster_id_error = Absent
    THEN [pb EXCEPT !.cluster_id_error = Some([current |-> 0, request |-> 0])]
    ELSE pb

SetCurrent(pb, current) ==
  [MutClusterIdError(pb) EXCEPT !.cluster_id_error.v.current = current]

SetRequest(pb, request) ==
  [MutClusterIdError(pb) EXCEPT !.cluster_id_error.v.request = request]

SetRegionError(pb, e) == [pb EXCEPT !.region_error = Some(e)]

SetKvError(pb, ke) == [pb EXCEPT !.kv_error = Some(ke)]

SetMsg(pb, m) == [pb EXCEPT !.msg = m]

\* LockInfo::new() followed by the five setters, in a KeyError
LockedKeyError(primary, ts, key, ttl, txn_size) ==
  [locked |-> [primary_lock |-> primary, lock_version |-> ts, key |-> key,
               lock_ttl |-> ttl, txn_size |-> txn_size]]

\* RegionError::default() with set_message and set_server_is_busy
BusyRegionError(message, reason) ==
  [message |-> message, has |-> {"server_is_busy"}, busy_reason |-> reason]

(* ------------------- impl Into<ErrorPb> for Error ---------------------- *)

\* IsRequest without the Txn(Mvcc(Engine(Request))) alternative
IsRequestShallow(x) ==
  \/ x.tag = "Engine" /\ x.inner.tag = "Request"
  \/ x.tag = "Txn" /\ x.inner.tag = "Engine" /\ x.inner.inner.tag = "Request"

\* the or-pattern of the second match arm
IsRequest(x) ==
  \/ x.tag = "Engine" /\ x.inner.tag = "Request"
  \/ x.tag = "Txn" /\ x.inner.tag = "Engine" /\ x.inner.inner.tag = "Request"
  \/ /\ x.tag = "Txn"
     /\ x.inner.tag = "Mvcc"
     /\ x.inner.inner.tag = "Engine"
     /\ x.inner.inner.inner.tag = "Request"

\* the e bound by the or-pattern
RequestOf(x) ==
  IF x.tag = "Engine" THEN x.inner.e
  ELSE IF x.inner.tag = "Engine" THEN x.inner.inner.e
  ELSE x.inner.inner.inner.e

IsKeyIsLocked(x) ==
  x.tag = "Txn" /\ x.inner.tag = "Mvcc" /\ x.inner.inner.tag = "KeyIsLocked"

IsTimeout(x) == x.tag = "Engine" /\ x.inner.tag = "Timeout"

\* RegionLabel with independent ifs: every reason present is counted
RegionLabelEvery(e) ==
  (IF "not_leader" \in e.has THEN <<"not_leader">> ELSE <<>>)
    \o (IF "region_not_found" \in e.has THEN <<"region_not_found">> ELSE <<>>)
    \o (IF "key_not_in_region" \in e.has THEN <<"key_not_in_region">> ELSE <<>>)
    \o (IF "epoch_not_match" \in e.has THEN <<"epoch_not_match">> ELSE <<>>)
    \o (IF "server_is_busy" \in e.has THEN <<"server_is_busy">> ELSE <<>>)
    \o (IF "stale_command" \in e.has THEN <<"stale_command">> ELSE <<>>)
    \o (IF "store_not_match" \in e.has THEN <<"store_not_match">> ELSE <<>>)

\* RegionLabel with a final else that counts "other"
RegionLabelElseOther(e) ==
  IF "not_leader" \in e.has THEN <<"not_leader">>
  ELSE IF "region_not_found" \in e.has THEN <<"region_not_found">>
  ELSE IF "key_not_in_region" \in e.has THEN <<"key_not_in_region">>
  ELSE IF "epoch_not_match" \in e.has THEN <<"epoch_not_match">>
  ELSE IF "server_is_busy" \in e.has THEN <<"server_is_busy">>
  ELSE IF "stale_command" \in e.has THEN <<"stale_command">>
  ELSE IF "store_not_match" \in e.has THEN <<"store_not_match">>
  ELSE <<"other">>

\* RegionLabel with the server_is_busy test moved before epoch_not_match
RegionLabelReordered(e) ==
  IF "not_leader" \in e.has THEN <<"not_leader">>
  ELSE IF "region_not_found" \in e.has THEN <<"region_not_found">>
  ELSE IF "key_not_in_region" \in e.has THEN <<"key_not_in_region">>
  ELSE IF "server_is_busy" \in e.has THEN <<"server_is_busy">>
  ELSE IF "epoch_not_match" \in e.has THEN <<"epoch_not_match">>
  ELSE IF "stale_command" \in e.has THEN <<"stale_command">>
  ELSE IF "store_not_match" \in e.has THEN <<"store_not_match">>
  ELSE <<>>

\* the if / else-if chain over e.has_*(): the labels it increments
RegionLabel(e) ==
  IF "not_leader" \in e.has THEN <<"not_leader">>
  ELSE IF "region_not_found" \in e.has THEN <<"region_not_found">>
  ELSE IF "key_not_in_region" \in e.has THEN <<"key_not_in_region">>
  ELSE IF "epoch_not_match" \in e.has THEN <<"epoch_not_match">>
  ELSE IF "server_is_busy" \in e.has THEN <<"server_is_busy">>
  ELSE IF "stale_command" \in e.has THEN <<"stale_command">>
  ELSE IF "store_not_match" \in e.has THEN <<"store_not_match">>
  ELSE <<>>

\* the labels incremented by into(x), in order
IntoLabels(x) ==
  IF x.tag = "ClusterID" THEN <<"cluster_mismatch">>
  ELSE IF IsRequest(x) THEN RegionLabel(RequestOf(x))
  ELSE IF IsKeyIsLocked(x) THEN <<"key_is_locked">>
  ELSE IF IsTimeout(x) THEN <<"timeout">>
  ELSE <<"other">>

\* ClusterIDArm with current and request exchanged
ClusterIDArmSwapped(x) ==
  SetRequest(SetCurrent(NewErrorPb, x.request), x.current)

ClusterIDArm(x) == SetRequest(SetCurrent(NewErrorPb, x.current), x.request)

RequestArm(x) == SetRegionError(NewErrorPb, RequestOf(x))

\* KeyIsLockedArm with ts and ttl exchanged
KeyIsLockedArmSwapped(x) ==
  LET l == x.inner.inner
  IN  SetKvError(NewErrorPb,
                 LockedKeyError(l.primary, l.ttl, l.key, l.ts, l.txn_size))

KeyIsLockedArm(x) ==
  LET l == x.inner.inner
  IN  SetKvError(NewErrorPb,
                 LockedKeyError(l.primary, l.ts, l.key, l.ttl, l.txn_size))

\* TimeoutArm that also fills the plain text message
TimeoutArmWithMsg(x) ==
  LET reason == DisplayError(x)
  IN  SetMsg(SetRegionError(NewErrorPb, BusyRegionError(reason, reason)),
             reason)

TimeoutArm(x) ==
  LET reason == DisplayError(x)
  IN  SetRegionError(NewErrorPb, BusyRegionError(reason, reason))

\* OtherArm formatting with "{}" instead of "{:?}"
OtherArmDisplay(x) == SetMsg(NewErrorPb, DisplayError(x))

OtherArm(x) == SetMsg(NewErrorPb, DebugError(x))

\* the ErrorPb returned by into(x)
IntoErr(x) ==
  IF x.tag = "ClusterID" THEN ClusterIDArm(x)
  ELSE IF IsRequest(x) THEN RequestArm(x)
  ELSE IF IsKeyIsLocked(x) THEN KeyIsLockedArm(x)
  ELSE IF IsTimeout(x) THEN TimeoutArm(x)
  ELSE OtherArm(x)

(* ------------------------- sequential behaviour ------------------------ *)

NoError == [tag |-> "none"]

ZeroCounters == [l \in LabelSet |-> 0]

Init ==
  /\ pc = "none"
  /\ self = NoError
  /\ err = NewErrorPb
  /\ old = ZeroCounters
  /\ counters = ZeroCounters
  /\ tpc = [t \in Threads |-> "idle"]
  /\ arg = [t \in Threads |-> NoError]
  /\ ret = [t \in Threads |-> NewErrorPb]

\* an upstream error is converted with From
FromUpstream ==
  /\ pc \in {"none", "done"}
  /\ Total(counters) < MaxCalls
  /\ \E u \in Upstream : self' = From(u[1], u[2])
  /\ pc' = "ready"
  /\ UNCHANGED <<err, old, counters, tpc, arg, ret>>

\* Error::ClusterID { current, request } is built directly
NewClusterID ==
  /\ pc \in {"none", "done"}
  /\ Total(counters) < MaxCalls
  /\ \E current \in ClusterIds, request \in ClusterIds :
       self' = ErrClusterID(current, request)
  /\ pc' = "ready"
  /\ UNCHANGED <<err, old, counters, tpc, arg, ret>>

\* self.into(): counts, builds and returns the wire message
Into ==
  /\ pc = "ready"
  /\ old' = counters
  /\ counters' = IncAll(counters, IntoLabels(self))
  /\ err' = IntoErr(self)
  /\ pc' = "done"
  /\ UNCHANGED <<self, tpc, arg, ret>>

Next == FromUpstream \/ NewClusterID \/ Into

Spec == Init /\ [][Next]_vars

(* ------------------------- concurrent behaviour ------------------------ *)

\* inputs of the concurrent calls: one per match arm and label kind
SampleErrors ==
  {ErrClusterID(1, 2),
   ErrEngine(EngineRequest(
     [message |-> <<"peer is not leader">>, has |-> {"not_leader"},
      busy_reason |-> <<>>])),
   ErrTxn(TxnMvcc(MvccEngine(EngineRequest(
     [message |-> <<>>, has |-> {}, busy_reason |-> <<>>])))),
   ErrTxn(TxnMvcc(MvccKeyIsLocked(<<"p">>, 7, <<>>, 0, 7))),
   ErrEngine(EngineTimeout("1s")),
   ErrTxn(TxnEngine(EngineTimeout("1s"))),
   ErrRocks(<<"corruption">>)}

\* a worker thread enters into() with its own error; err = ErrorPb::new()
IntoCall(t) ==
  /\ tpc[t] = "idle"
  /\ \E e \in SampleErrors : arg' = [arg EXCEPT ![t] = e]
  /\ tpc' = [tpc EXCEPT ![t] = "matching"]
  /\ UNCHANGED <<pc, self, err, old, counters, ret>>

\* the matched arm increments its label on the shared counter vector
IntoCount(t) ==
  /\ tpc[t] = "matching"
  /\ counters' = IncAll(counters, IntoLabels(arg[t]))
  /\ tpc' = [tpc EXCEPT ![t] = "counted"]
  /\ UNCHANGED <<pc, self, err, old, arg, ret>>

\* IntoReturn with one err buffer shared by the calls in progress
IntoReturnShared(t) ==
  /\ tpc[t] = "counted"
  /\ ret' = [u \in Threads |->
               IF tpc[u] # "idle" THEN IntoErr(arg[t]) ELSE ret[u]]
  /\ tpc' = [tpc EXCEPT ![t] = "returned"]
  /\ UNCHANGED <<pc, self, err, old, counters, arg>>

\* the arm fills the thread's own err and into() returns it
IntoReturn(t) ==
  /\ tpc[t] = "counted"
  /\ ret' = [ret EXCEPT ![t] = IntoErr(arg[t])]
  /\ tpc' = [tpc EXCEPT ![t] = "returned"]
  /\ UNCHANGED <<pc, self, err, old, counters, arg>>

NextConc == \E t \in Threads : IntoCall(t) \/ IntoCount(t) \/ IntoReturn(t)

SpecConc == Init /\ [][NextConc]_vars

(* ------------------------------- claims -------------------------------- *)

Done == pc = "done"

\* the call incremented label l by one and changed no other label
OnlyInc(l) == counters = [old EXCEPT ![l] = old[l] + 1]

\* the three recognised wrappings of a region-routing failure e
Wrappings(e) ==
  {ErrEngine(EngineRequest(e)),
   ErrTxn(TxnEngine(EngineRequest(e))),
   ErrTxn(TxnMvcc(MvccEngine(EngineRequest(e))))}

RoutingFailures == UNION {Wrappings(e) : e \in RegionErrors}

\* the wire shapes populated in a message
PopulatedShapes(pb) ==
  (IF pb.cluster_id_error # Absent THEN {"cluster_id_error"} ELSE {})
    \cup (IF pb.region_error # Absent THEN {"region_error"} ELSE {})
    \cup (IF pb.kv_error # Absent THEN {"kv_error"} ELSE {})
    \cup (IF pb.msg # <<>> THEN {"msg"} ELSE {})

\* the fixed order in which the reasons are tested
ReasonOrder ==
  <<"not_leader", "region_not_found", "key_not_in_region", "epoch_not_match",
    "server_is_busy", "stale_command", "store_not_match">>

FirstReason(e) ==
  LET i == CHOOSE i \in DOMAIN ReasonOrder :
             /\ ReasonOrder[i] \in e.has
             /\ \A j \in 1..(i - 1) : ReasonOrder[j] \notin e.has
  IN  ReasonOrder[i]

\* C1: every constructed Error can be translated, and the returned message
\* has exactly one of the four wire shapes populated.
C1_TotalAndExclusive ==
  /\ pc = "ready" => ENABLED Into
  /\ Done => Cardinality(PopulatedShapes(err)) = 1

C1_Witness ==
  /\ Done
  /\ self = ErrTxn(TxnMvcc(MvccEngine(EngineTimeout("1s"))))
  /\ PopulatedShapes(err) = {"msg"}

\* C2 as stated: every translation increments exactly one label by one and
\* leaves the other labels unchanged.
C2_ExactlyOneLabel == Done => \E l \in LabelSet : OnlyInc(l)

\* C2 amended: a translation increments exactly one label by one, except
\* for a routing failure carrying none of the seven reasons, which
\* increments none.
C2_OneLabelUnlessNoReason ==
  Done =>
    IF self \in RoutingFailures /\ RequestOf(self).has = {}
      THEN counters = old
      ELSE \E l \in LabelSet : OnlyInc(l)

C2_Witness ==
  /\ Done
  /\ self \in RoutingFailures
  /\ Cardinality(RequestOf(self).has) = 2
  /\ Total(old) = 1
  /\ Total(counters) = 2

\* C3: a routing failure with none of the seven reasons still yields the
\* region-error shape holding e, and no label is incremented.
C3_NoReasonNoLabel ==
  \A e \in RegionErrors :
    (Done /\ self \in Wrappings(e) /\ e.has = {}) =>
      /\ err.region_error = Some(e)
      /\ counters = old

C3_Witness ==
  /\ Done
  /\ self \in RoutingFailures
  /\ RequestOf(self).has = {}
  /\ RequestOf(self).message # <<>>
  /\ err.region_error # Absent

\* C4: the translation of a routing failure e is the same for the three
\* wrappings: message and counted labels are those of Engine(Request(e)).
C4_DepthIndependent ==
  \A e \in RegionErrors :
    (Done /\ self \in Wrappings(e)) =>
      /\ err = SetRegionError(NewErrorPb, e)
      /\ err = IntoErr(ErrEngine(EngineRequest(e)))
      /\ counters = IncAll(old, IntoLabels(ErrEngine(EngineRequest(e))))

C4_Witness ==
  /\ Done
  /\ self.tag = "Txn"
  /\ self.inner.tag = "Mvcc"
  /\ self \in RoutingFailures
  /\ RequestOf(self).has = {"stale_command"}
  /\ OnlyInc("stale_command")

\* C5: the region-error is e unchanged, and the label incremented is that
\* of the first reason e carries in the fixed order, and only that one.
C5_FirstReasonCounted ==
  \A e \in RegionErrors :
    (Done /\ self \in Wrappings(e)) =>
      /\ err.region_error = Some(e)
      /\ e.has # {} => OnlyInc(FirstReason(e))

C5_Witness ==
  /\ Done
  /\ self \in RoutingFailures
  /\ RequestOf(self).has = {"epoch_not_match", "server_is_busy"}
  /\ OnlyInc("epoch_not_match")

\* C6 as stated: for Engine(Timeout(t)) the message and the server-is-busy
\* reason are both the rendering of t itself, and only timeout is counted.
C6_TimeoutTextIsValue ==
  \A d \in Durations :
    (Done /\ self = ErrEngine(EngineTimeout(d))) =>
      /\ err.region_error = Some(BusyRegionError(<<d>>, <<d>>))
      /\ OnlyInc("timeout")

\* C6 amended: both texts are the same string, the Display rendering of the
\* whole error: "Engine error " followed by the engine error's rendering.
C6_TimeoutTextIsErrorDisplay ==
  \A d \in Durations :
    (Done /\ self = ErrEngine(EngineTimeout(d))) =>
      /\ err.region_error # Absent
      /\ err.region_error.v.message = err.region_error.v.busy_reason
      /\ err.region_error.v.message
           = <<"Engine error ">> \o DisplayEngine(EngineTimeout(d))
      /\ err.region_error.v.has = {"server_is_busy"}
      /\ OnlyInc("timeout")

C6_Witness ==
  /\ Done
  /\ self = ErrEngine(EngineTimeout("deadline exceeded"))
  /\ err.region_error # Absent

\* C7: Txn(Mvcc(KeyIsLocked)) yields a key-error whose lock descriptor has
\* the five fields copied unchanged, and only key_is_locked is counted.
C7_LockFieldsCopied ==
  \A p \in ByteStrings, ts \in U64s, k \in ByteStrings,
     ttl \in U64s, n \in U64s :
    (Done /\ self = ErrTxn(TxnMvcc(MvccKeyIsLocked(p, ts, k, ttl, n)))) =>
      /\ err.kv_error # Absent
      /\ err.kv_error.v.locked.primary_lock = p
      /\ err.kv_error.v.locked.lock_version = ts
      /\ err.kv_error.v.locked.key = k
      /\ err.kv_error.v.locked.lock_ttl = ttl
      /\ err.kv_error.v.locked.txn_size = n
      /\ OnlyInc("key_is_locked")

C7_Witness ==
  /\ Done
  /\ self = ErrTxn(TxnMvcc(MvccKeyIsLocked(<<"p">>, 7, <<>>, 0, 7)))
  /\ err.kv_error # Absent

\* C8: ClusterID{current, request} yields a cluster-id-error with current
\* and request copied, not swapped, and only cluster_mismatch is counted.
C8_ClusterIdCopied ==
  \A c \in ClusterIds, r \in ClusterIds :
    (Done /\ self = ErrClusterID(c, r)) =>
      /\ err.cluster_id_error = Some([current |-> c, request |-> r])
      /\ OnlyInc("cluster_mismatch")

C8_Witness ==
  /\ Done
  /\ self = ErrClusterID(1, 2)
  /\ err.cluster_id_error # Absent

\* C9: every error matched by none of the first four rules yields the plain
\* text message holding its debug rendering, and only other is counted.
C9_FallbackIsDebugText ==
  (/\ Done
   /\ self.tag # "ClusterID"
   /\ self \notin RoutingFailures
   /\ \A p \in ByteStrings, ts \in U64s, k \in ByteStrings,
         ttl \in U64s, n \in U64s :
        self # ErrTxn(TxnMvcc(MvccKeyIsLocked(p, ts, k, ttl, n)))
   /\ \A d \in Durations : self # ErrEngine(EngineTimeout(d))) =>
    /\ err = [NewErrorPb EXCEPT !.msg = DebugError(self)]
    /\ err.msg # <<>>
    /\ self = ErrRocks(<<"corruption">>) =>
         err.msg = <<"Rocks(", "\"", "corruption", "\"", ")">>
    /\ OnlyInc("other")

C9_Witness ==
  /\ Done
  /\ self = ErrTxn(TxnEngine(EngineTimeout("deadline exceeded")))
  /\ err.msg # <<>>
  /\ err.region_error = Absent

\* C10: once all concurrent calls have returned, each label's counter is
\* the number of calls whose input selects it, and each call's message is
\* the one its input produces when translated alone.
C10_NoLostIncrement ==
  (\A t \in Threads : tpc[t] = "returned") =>
    /\ \A l \in LabelSet :
         counters[l] = Cardinality({t \in Threads : IntoLabels(arg[t]) = <<l>>})
    /\ \A t \in Threads : ret[t] = IntoErr(arg[t])

C10_Witness ==
  /\ \A t \in Threads : tpc[t] = "returned"
  /\ arg[1] = ErrEngine(EngineTimeout("1s"))
  /\ arg[2] = ErrEngine(EngineTimeout("1s"))
  /\ counters["timeout"] >= 2

====
